---- MODULE Spec2Model ----
(***************************************************************************)
(* The Evennia Server process lifecycle (evennia/server/server.py):        *)
(* post-handshake initialisation (run_init_hooks), the maintenance tick    *)
(* (_server_maintenance), the stop sequence (Evennia.shutdown, an          *)
(* inlineCallbacks coroutine with two suspension points), the wrapped      *)
(* SIGINT handler, and the durable ServerConfig store that survives        *)
(* process restarts.                                                        *)
(***************************************************************************)
EXTENDS Integers, Sequences, FiniteSets, TLC

(* ------------------------------ bounds --------------------------------- *)
MaxTime == 3
MaxTicks == 2
MaxCalls == 2
MaxInits == 2
MaxRestarts == 1
\* ticks of one long-lived process: past the 420th, where the connection drops
MaxLongRun == 421

(* ------------------------- the fixed world ----------------------------- *)
\* wall clock (time.time()) when the first process starts on an empty store
StartTime == 1

ObjectIds == <<"o1", "c1">>
AccountIds == <<"a1", "g1">>
ScriptIds == <<"s1", "s2">>
\* accounts whose db_typeclass_path is settings.BASE_GUEST_TYPECLASS
GuestAccounts == {"g1"}
\* guest.db._playable_characters
PlayableCharacters == [a \in {"a1", "g1"} |-> IF a = "g1" THEN {"c1"} ELSE {}]
\* ScriptDB.db_persistent
PersistentScripts == {"s1"}
\* accounts that pass the "noidletimeout" lock
NoIdleTimeout == {"a1"}
\* the sessions the Portal mirrors to the Server, and the account of each
\* ("" for a session that has not logged in: session.account is None)
SessionIds == <<"x1", "x2", "x3">>
SessionAccount == [x \in {"x1", "x2", "x3"} |->
                     IF x = "x1" THEN "" ELSE IF x = "x2" THEN "a1" ELSE "g1"]
\* settings.IDLE_TIMEOUT values: disabled (negative or zero) and two thresholds
IdleTimeouts == {-1, 0, 1, 2}
\* _MAINTENANCE_COUNT % 5 and % (60 * 7)
FlushEvery == 5
ReconnectEvery == 420

\* SERVER_STARTSTOP_MODULES, in registration order, and the hooks each defines
SERVER_STARTSTOP_MODULES == <<"m1", "m2">>
ModuleHooks ==
  [m \in {"m1", "m2"} |->
     IF m = "m1"
     THEN {"at_server_init", "at_server_start", "at_server_stop",
           "at_server_reload_start", "at_server_reload_stop",
           "at_server_cold_start", "at_server_cold_stop"}
     ELSE {"at_server_start", "at_server_stop", "at_server_cold_start",
           "at_server_reload_stop"}]

StopModes == {"reload", "reset", "shutdown"}
\* the mode the Portal hands to run_init_hooks; "startup" is none of the three
InitModes == {"reload", "reset", "shutdown", "startup"}

(* ------------------------------ state ---------------------------------- *)
VARIABLES
  now,                 \* time.time()
  conf,                \* ServerConfig: key -> <<>> (unset) or <<value>>
  accounts_db,         \* AccountDB rows
  objects_db,          \* ObjectDB rows
  script_state,        \* ScriptDB: id -> "active" | "paused" | "stopped"
  sessions,            \* SESSIONS: session id -> cmd_last, for the mirrored sessions
  puppeted,            \* objects tagged "puppeted" (category "account")
  has_account,         \* objects whose has_account is true
  is_connected,        \* accounts whose is_connected flag is set
  sessid,              \* objects whose db_sessid holds a session id
  last_initial_setup_step, \* ServerConfig "last_initial_setup_step": "" when unset
  faulty,              \* cached instances whose lifecycle hooks raise
  registry,            \* the loaded SERVER_STARTSTOP_MODULES, in order: name, hooks
  GUEST_ENABLED,       \* settings.GUEST_ENABLED
  IDLE_TIMEOUT,        \* settings.IDLE_TIMEOUT
  has_web_root,        \* hasattr(EVENNIA, "web_root") (WEBSERVER_ENABLED)
  amp_protocol,        \* Evennia.amp_protocol is set
  reactor,             \* "running" | "stop_scheduled" | "stopped"
  shutdown_complete,   \* hasattr(self, "shutdown_complete")
  maintenance_tasks,   \* LoopingCall(_server_maintenance) instances started
  init_calls,          \* run_init_hooks calls received by this process
  MAINTENANCE_COUNT,   \* _MAINTENANCE_COUNT
  LAST_SNAPSHOT,       \* _LAST_SERVER_TIME_SNAPSHOT
  SERVER_RUNTIME,      \* gametime.SERVER_RUNTIME
  RUNTIME_LAST_UPDATED,\* gametime.SERVER_RUNTIME_LAST_UPDATED
  frames,              \* the shutdown() calls of this process, in call order,
                       \* each with what it has done so far
  inits,               \* the run_init_hooks calls of this process, likewise
  ticks,               \* the _server_maintenance calls of this process, likewise
  setups,              \* the run_initial_setup calls of this process, likewise
  post_syncs,          \* the at_post_portal_sync calls of this process, likewise
  sigint,              \* "none" | "wait" | "timer" | "fired"
  runtime_at_start,    \* the stored runtime when this process started
  restarts             \* process restarts so far

vars == <<now, conf, accounts_db, objects_db, script_state, sessions, puppeted,
          has_account, is_connected, sessid, last_initial_setup_step, faulty,
          registry, GUEST_ENABLED, IDLE_TIMEOUT, has_web_root, amp_protocol, reactor, shutdown_complete,
          maintenance_tasks, init_calls, MAINTENANCE_COUNT, LAST_SNAPSHOT,
          SERVER_RUNTIME, RUNTIME_LAST_UPDATED, frames, inits, ticks, setups,
          post_syncs, sigint, runtime_at_start, restarts>>

(* ----------------------------- helpers --------------------------------- *)
\* one thing a handler did; ready: had notify_server_ready been received?
Ev(ctx, n, op, who) ==
  [ctx |-> ctx, n |-> n, op |-> op, who |-> who, ready |-> FALSE]

\* ServerConfig.objects.conf(key, default=...)
ConfGet(c, key, default) == IF c[key] = <<>> THEN default ELSE c[key][1]
\* ServerConfig.objects.conf(key, value)
ConfSet(c, key, value) == [c EXCEPT ![key] = <<value>>]
\* ServerConfig.objects.conf(key, delete=True)
ConfDelete(c, key) == [c EXCEPT ![key] = <<>>]

Filter(seq, S) == SelectSeq(seq, LAMBDA x : x \in S)
\* one event per element of seq, in order
Each(seq, ctx, n, op) == [i \in 1..Len(seq) |-> Ev(ctx, n, op, seq[i])]

\* a dispatch that calls the hook on every module, defined or not
Dispatch_AllModules(hook, ctx, n) ==
  Each([i \in 1..Len(registry) |-> registry[i].name], ctx, n, hook)

\* for mod in SERVER_STARTSTOP_MODULES: if hasattr(mod, hook): mod.hook()
Dispatch(hook, ctx, n) ==
  LET mods == SelectSeq(registry, LAMBDA m : hook \in m.hooks)
  IN Each([i \in 1..Len(mods) |-> mods[i].name], ctx, n, hook)

\* the state one handler reads and writes, threaded through its steps;
\* tr is what the handler has done before this step
Here(tr) ==
  [conf |-> conf, accounts_db |-> accounts_db, objects_db |-> objects_db,
   script_state |-> script_state, sessions |-> sessions,
   puppeted |-> puppeted, is_connected |-> is_connected, sessid |-> sessid,
   ticks |-> ticks, setups |-> setups, post_syncs |-> post_syncs,
   last_initial_setup_step |-> last_initial_setup_step, reactor |-> reactor,
   shutdown_complete |-> shutdown_complete,
   maintenance_tasks |-> maintenance_tasks,
   MAINTENANCE_COUNT |-> MAINTENANCE_COUNT, LAST_SNAPSHOT |-> LAST_SNAPSHOT,
   SERVER_RUNTIME |-> SERVER_RUNTIME,
   RUNTIME_LAST_UPDATED |-> RUNTIME_LAST_UPDATED,
   ready |-> init_calls > 0, trace |-> tr, pc |-> "run"]

Commit(s) ==
  /\ conf' = s.conf
  /\ accounts_db' = s.accounts_db
  /\ objects_db' = s.objects_db
  /\ script_state' = s.script_state
  /\ sessions' = s.sessions
  /\ puppeted' = s.puppeted
  /\ is_connected' = s.is_connected
  /\ sessid' = s.sessid
  /\ ticks' = s.ticks
  /\ setups' = s.setups
  /\ post_syncs' = s.post_syncs
  /\ last_initial_setup_step' = s.last_initial_setup_step
  /\ reactor' = s.reactor
  /\ shutdown_complete' = s.shutdown_complete
  /\ maintenance_tasks' = s.maintenance_tasks
  /\ MAINTENANCE_COUNT' = s.MAINTENANCE_COUNT
  /\ LAST_SNAPSHOT' = s.LAST_SNAPSHOT
  /\ SERVER_RUNTIME' = s.SERVER_RUNTIME
  /\ RUNTIME_LAST_UPDATED' = s.RUNTIME_LAST_UPDATED

Log(s, evs) ==
  [s EXCEPT !.trace = @ \o [i \in 1..Len(evs) |->
                               [evs[i] EXCEPT !.ready = s.ready]]]

\* the concatenation of a sequence of sequences
RECURSIVE Concat(_)
Concat(ss) == IF ss = <<>> THEN <<>> ELSE Head(ss) \o Concat(Tail(ss))

\* the hooks the lifecycle calls on cached objects, accounts and scripts
LifecycleHooks == {"at_init", "at_server_reload", "at_server_shutdown"}
\* the first call of the batch that raises: a lifecycle hook on a faulty instance
FirstRaise(evs) ==
  LET bad == {i \in 1..Len(evs) :
                evs[i].op \in LifecycleHooks /\ evs[i].who \in faulty}
  IN IF bad = {} THEN 0 ELSE CHOOSE i \in bad : \A j \in bad : i <= j
\* the calls of a list comprehension, in order; nothing catches an exception,
\* so the first call that raises ends the batch and the handler with it
Run(s, evs) ==
  LET k == FirstRaise(evs)
  IN IF k = 0 THEN Log(s, evs)
     ELSE [Log(s, SubSeq(evs, 1, k)) EXCEPT !.pc = "raised"]
\* the instances on which the handler has called op since it had done `from` things
Called(s, from, op) ==
  {s.trace[i].who : i \in {j \in (from + 1)..Len(s.trace) : s.trace[j].op = op}}

Alive == reactor # "stopped"

(* ------------------------------ Init ----------------------------------- *)
ProcessInit ==
  /\ amp_protocol = FALSE
  /\ reactor = "running"
  /\ shutdown_complete = FALSE
  /\ maintenance_tasks = 0
  /\ init_calls = 0
  /\ MAINTENANCE_COUNT = 0
  /\ LAST_SNAPSHOT = 0
  /\ SERVER_RUNTIME = 0
  /\ RUNTIME_LAST_UPDATED = 0
  /\ frames = <<>>
  /\ inits = <<>>
  /\ ticks = <<>>
  /\ setups = <<>>
  /\ post_syncs = <<>>
  /\ sigint = "none"

\* the durable store and the process, whatever the sessions and settings
Base ==
  /\ now = StartTime
  /\ conf = [k \in {"runtime", "server_restart_mode"} |-> <<>>]
  /\ accounts_db = {"a1", "g1"}
  /\ objects_db = {"o1", "c1"}
  /\ script_state = [s \in {"s1", "s2"} |-> "active"]
  /\ is_connected = {"a1", "g1"}
  /\ sessid = {"o1", "c1"}
  /\ has_web_root \in BOOLEAN
  /\ ProcessInit
  /\ runtime_at_start = ConfGet(conf, "runtime", 0)
  /\ restarts = 0

\* SERVER_STARTSTOP_MODULES as loaded: each module with the hooks it defines
Registered ==
  [i \in 1..Len(SERVER_STARTSTOP_MODULES) |->
     [name |-> SERVER_STARTSTOP_MODULES[i],
      hooks |-> ModuleHooks[SERVER_STARTSTOP_MODULES[i]]]]

\* a game whose initial setup is done, whose hooks do not raise, with the
\* start/stop modules of the settings
Sound ==
  /\ last_initial_setup_step = "done"
  /\ faulty = {}
  /\ registry = Registered

\* a game with players connected and puppeting, the idle timeout off (the
\* default of settings.IDLE_TIMEOUT) and no puppet left behind by a crash
Init ==
  /\ Base
  /\ Sound
  /\ GUEST_ENABLED \in BOOLEAN
  /\ IDLE_TIMEOUT = 0
  /\ sessions = [x \in {"x1", "x2", "x3"} |-> 0]
  /\ puppeted = {"o1", "c1"}
  /\ has_account = {"o1", "c1"}

\* the same game with any idle timeout, any last activity of the sessions and
\* any puppet left without its account
InitSweep ==
  /\ Base
  /\ Sound
  /\ GUEST_ENABLED = FALSE
  /\ IDLE_TIMEOUT \in IdleTimeouts
  /\ sessions \in [{"x1", "x2", "x3"} -> 0..StartTime]
  /\ puppeted \in SUBSET {"o1", "c1"}
  /\ has_account \in SUBSET {"o1", "c1"}

\* the steps of the initial setup, in the order handle_setup runs them
SetupSteps == <<"create_objects", "at_initial_setup", "collectstatic">>
\* what the store can hold under last_initial_setup_step: nothing (""), a
\* step, "done", or the -1 that older versions wrote when done
Markers == {"", "done", "-1"} \cup {SetupSteps[i] : i \in 1..Len(SetupSteps)}
\* how a run of handle_setup can end: it completes, a step raises, or the
\* process is killed while a step runs
SetupOutcomes ==
  {[kind |-> "ok", at |-> Len(SetupSteps)]}
    \cup [kind : {"raised", "killed"}, at : 1..Len(SetupSteps)]

\* a store left by any earlier start: any marker, no hook raises
InitSetup ==
  /\ Base
  /\ last_initial_setup_step \in Markers
  /\ faulty = {}
  /\ registry = Registered
  /\ GUEST_ENABLED = FALSE
  /\ IDLE_TIMEOUT = 0
  /\ sessions = [x \in {"x1", "x2", "x3"} |-> 0]
  /\ puppeted = {"o1", "c1"}
  /\ has_account = {"o1", "c1"}

\* what a start/stop module may define: every hook, none, or some of them
HookSets ==
  {{"at_server_init", "at_server_start", "at_server_stop",
    "at_server_reload_start", "at_server_reload_stop",
    "at_server_cold_start", "at_server_cold_stop"},
   {},
   {"at_server_start", "at_server_stop", "at_server_cold_start",
    "at_server_reload_stop"}}

\* the same game with three start/stop modules, each defining any of the
\* hook sets
InitDispatch ==
  /\ Base
  /\ last_initial_setup_step = "done"
  /\ faulty = {}
  /\ \E h \in [1..3 -> HookSets] :
       registry = [i \in 1..3 |->
                     [name |-> <<"m1", "m2", "m3">>[i], hooks |-> h[i]]]
  /\ GUEST_ENABLED = FALSE
  /\ IDLE_TIMEOUT = 0
  /\ sessions = [x \in {"x1", "x2", "x3"} |-> 0]
  /\ puppeted = {"o1", "c1"}
  /\ has_account = {"o1", "c1"}

\* the cached objects, accounts and scripts
Instances ==
  {ObjectIds[i] : i \in 1..Len(ObjectIds)}
    \cup {AccountIds[i] : i \in 1..Len(AccountIds)}
    \cup {ScriptIds[i] : i \in 1..Len(ScriptIds)}

\* the same game in which the hooks of at most one typeclass instance raise
InitFault ==
  /\ Base
  /\ last_initial_setup_step = "done"
  /\ registry = Registered
  /\ faulty \in {{}} \cup {{x} : x \in Instances}
  /\ GUEST_ENABLED = FALSE
  /\ IDLE_TIMEOUT = 0
  /\ sessions = [x \in {"x1", "x2", "x3"} |-> 0]
  /\ puppeted = {"o1", "c1"}
  /\ has_account = {"o1", "c1"}

(* --------------------------- environment ------------------------------- *)
settings == <<GUEST_ENABLED, IDLE_TIMEOUT, has_web_root, has_account, faulty,
              registry>>
world == <<conf, accounts_db, objects_db, script_state, sessions, puppeted,
           is_connected, sessid, last_initial_setup_step>>
gametime == <<MAINTENANCE_COUNT, LAST_SNAPSHOT, SERVER_RUNTIME,
              RUNTIME_LAST_UPDATED, ticks>>
logs == <<setups, post_syncs>>

\* the wall clock moves on
AdvanceTime ==
  /\ now < MaxTime
  /\ now' = now + 1
  /\ UNCHANGED <<settings, world, gametime, logs, amp_protocol, reactor,
                 shutdown_complete, maintenance_tasks, init_calls, frames,
                 inits, sigint, runtime_at_start, restarts>>

\* the AMP client factory connects to the Portal and sets server.amp_protocol
AmpConnect ==
  /\ Alive
  /\ ~amp_protocol
  /\ amp_protocol' = TRUE
  /\ UNCHANGED <<now, settings, world, gametime, logs, reactor, shutdown_complete,
                 maintenance_tasks, init_calls, frames, inits, sigint,
                 runtime_at_start, restarts>>

\* the AMP connection to the Portal is lost: the channel is no longer there
AmpLost ==
  /\ Alive
  /\ amp_protocol
  /\ amp_protocol' = FALSE
  /\ UNCHANGED <<now, settings, world, gametime, logs, reactor, shutdown_complete,
                 maintenance_tasks, init_calls, frames, inits, sigint,
                 runtime_at_start, restarts>>

(* ----------------------- _server_maintenance --------------------------- *)
\* a tick that keeps the elapsed time and drops the accumulated runtime
NextRuntime_DropsAccumulated(count, c, rt, t, snap) ==
  IF count = 1 THEN ConfGet(c, "runtime", 0) ELSE t - snap

\* a tick that adds the nominal period of the LoopingCall, not the elapsed time
NextRuntime_NominalPeriod(count, c, rt, t, snap) ==
  IF count = 1 THEN ConfGet(c, "runtime", 0) ELSE rt + 60

\* the runtime after tick number count: loaded from the store on the first
\* tick of the process, advanced by the elapsed wall time on the later ones
NextRuntime(count, c, rt, t, snap) ==
  IF count = 1 THEN ConfGet(c, "runtime", 0) ELSE rt + (t - snap)

\* a flush asked for on every tick
Periodic_FlushEveryTick(s, count) ==
  Log(s, <<Ev("tick", count, "conditional_flush", "")>>
         \o (IF count % ReconnectEvery = 0
             THEN <<Ev("tick", count, "connection.close", "")>> ELSE <<>>))

\* the conditional cache flush every 5th tick, the connection drop every 420th
Periodic(s, count) ==
  Log(s, (IF count % FlushEvery = 0
          THEN <<Ev("tick", count, "conditional_flush", "")>> ELSE <<>>)
         \o (IF count % ReconnectEvery = 0
             THEN <<Ev("tick", count, "connection.close", "")>> ELSE <<>>))

\* a first pass that takes a session idle for exactly the threshold as well
ToDisconnect_AtThreshold(s, t) ==
  SelectSeq(SessionIds, LAMBDA x :
    /\ x \in DOMAIN s.sessions
    /\ (t - s.sessions[x]) >= IDLE_TIMEOUT
    /\ (SessionAccount[x] = "" \/ SessionAccount[x] \notin NoIdleTimeout))

\* the first pass of the idle sweep: the mirrored sessions idle for longer than
\* the threshold whose account is missing or fails the "noidletimeout" lock
ToDisconnect(s, t) ==
  SelectSeq(SessionIds, LAMBDA x :
    /\ x \in DOMAIN s.sessions
    /\ (t - s.sessions[x]) > IDLE_TIMEOUT
    /\ (SessionAccount[x] = "" \/ SessionAccount[x] \notin NoIdleTimeout))

\* if _IDLE_TIMEOUT > 0: collect, then SESSIONS.disconnect each one collected
IdleSweep(s, count, t) ==
  IF IDLE_TIMEOUT > 0
  THEN LET td == ToDisconnect(s, t)
           gone == {td[i] : i \in 1..Len(td)}
       IN Log([s EXCEPT !.sessions = [x \in (DOMAIN @) \ gone |-> @[x]]],
              Each(td, "tick", count, "to_disconnect.append")
                \o Each(td, "tick", count, "disconnect(idle timeout exceeded)"))
  ELSE s

\* a sweep that removes the tag and runs no unpuppet hook
OrphanSweep_TagOnly(s, count) ==
  IF count > 1
  THEN LET orphans == SelectSeq(ObjectIds, LAMBDA o :
                        o \in s.objects_db /\ o \in s.puppeted /\ o \notin has_account)
       IN Log([s EXCEPT !.puppeted = @ \ {orphans[i] : i \in 1..Len(orphans)}],
              Each(orphans, "tick", count, "tags.remove(puppeted)"))
  ELSE s

\* if _MAINTENANCE_COUNT > 1: the unpuppet hooks, then the tag's removal, for
\* every object tagged "puppeted" that has no account
OrphanSweep(s, count) ==
  IF count > 1
  THEN LET orphans == SelectSeq(ObjectIds, LAMBDA o :
                        o \in s.objects_db /\ o \in s.puppeted /\ o \notin has_account)
           evs == [i \in 1..Len(orphans) |->
                     <<Ev("tick", count, "at_pre_unpuppet", orphans[i]),
                       Ev("tick", count, "at_post_unpuppet(None, connection lost)",
                          orphans[i]),
                       Ev("tick", count, "tags.remove(puppeted)", orphans[i])>>]
       IN Log([s EXCEPT !.puppeted = @ \ {orphans[i] : i \in 1..Len(orphans)}],
              Concat(evs))
  ELSE s

\* the runtime clock of tick number count, and its write to the store
UpdateRuntime(s, count, t) ==
  LET rt == NextRuntime(count, s.conf, s.SERVER_RUNTIME, t, s.LAST_SNAPSHOT)
  IN Log([s EXCEPT !.MAINTENANCE_COUNT = count,
                   !.SERVER_RUNTIME = rt,
                   !.LAST_SNAPSHOT = t,
                   !.RUNTIME_LAST_UPDATED = t,
                   !.conf = ConfSet(@, "runtime", rt)],
         <<Ev("tick", count, "_server_maintenance", ""),
           Ev("tick", count, "conf", "runtime")>>)

\* one call of _server_maintenance at wall time t
ServerMaintenance(s, t) ==
  LET count == s.MAINTENANCE_COUNT + 1
      s1 == OrphanSweep(IdleSweep(Periodic(UpdateRuntime(s, count, t), count),
                                  count, t),
                        count)
  IN [s1 EXCEPT !.ticks = Append(@,
        [n |-> count, t |-> t, runtime |-> s1.SERVER_RUNTIME,
         before |-> [sessions |-> s.sessions, puppeted |-> s.puppeted,
                     objects_db |-> s.objects_db],
         trace |-> SubSeq(s1.trace, Len(s.trace) + 1, Len(s1.trace))])]

\* the LoopingCall of a process that runs for hours fires
LongRunTick ==
  /\ Alive
  /\ maintenance_tasks > 0
  /\ MAINTENANCE_COUNT < MaxLongRun
  /\ Commit(ServerMaintenance(Here(<<>>), now))
  /\ UNCHANGED <<now, settings, amp_protocol, init_calls, frames, inits,
                 sigint, runtime_at_start, restarts>>

\* the LoopingCall fires a periodic tick
MaintenanceTick ==
  /\ Alive
  /\ maintenance_tasks > 0
  /\ MAINTENANCE_COUNT < MaxTicks
  /\ Commit(ServerMaintenance(Here(<<>>), now))
  /\ UNCHANGED <<now, settings, amp_protocol, init_calls, frames, inits,
                 sigint, runtime_at_start, restarts>>

(* ------------------------- server start hooks -------------------------- *)
\* Evennia.at_server_cold_start
AtServerColdStart(s, ctx, n) ==
  LET nonpersistent == SelectSeq(ScriptIds, LAMBDA x : x \notin PersistentScripts)
      guests == IF GUEST_ENABLED
                THEN Filter(AccountIds, s.accounts_db \cap GuestAccounts)
                ELSE <<>>
      gset == {guests[i] : i \in 1..Len(guests)}
      chars == Filter(ObjectIds,
                      s.objects_db \cap UNION {PlayableCharacters[g] : g \in gset})
      cset == {chars[i] : i \in 1..Len(chars)}
  IN Log([s EXCEPT
            !.script_state = [x \in DOMAIN @ |->
                                IF x \in PersistentScripts THEN @[x] ELSE "stopped"],
            !.accounts_db = @ \ gset,
            !.objects_db = @ \ cset,
            !.sessid = {}],
         <<Ev(ctx, n, "clear_all_sessids", "")>>
           \o Each(nonpersistent, ctx, n, "_stop_task")
           \o Each(chars, ctx, n, "delete")
           \o Each(guests, ctx, n, "delete")
           \o Dispatch("at_server_cold_start", ctx, n))

\* a branch that takes a reset for a reload
StartBranch_ResetAsReload(s, n, mode) ==
  IF mode \in {"reload", "reset"}
  THEN Log(s, Dispatch("at_server_reload_start", "init", n))
  ELSE IF mode = "shutdown"
       THEN Log([AtServerColdStart(s, "init", n) EXCEPT !.sessid = {}],
                <<Ev("init", n, "clear_all_sessids", "")>>)
  ELSE s

\* the branch of run_init_hooks on the mode
StartBranch(s, n, mode) ==
  IF mode = "reload" THEN Log(s, Dispatch("at_server_reload_start", "init", n))
  ELSE IF mode = "reset" THEN AtServerColdStart(s, "init", n)
  ELSE IF mode = "shutdown"
       THEN Log([AtServerColdStart(s, "init", n) EXCEPT !.sessid = {}],
                <<Ev("init", n, "clear_all_sessids", "")>>)
  ELSE s

\* [entity.at_init() for entity in typeclass_db.get_all_cached_instances()]
AtInitAll(s, n) ==
  Run(s, Each(Filter(ObjectIds, s.objects_db), "init", n, "at_init")
         \o Each(Filter(AccountIds, s.accounts_db), "init", n, "at_init")
         \o Each(ScriptIds, "init", n, "at_init"))

\* maintenance_task = LoopingCall(_server_maintenance); start(60, now=True)
StartMaintenance(s, n, t) ==
  ServerMaintenance(
    Log([s EXCEPT !.maintenance_tasks = @ + 1],
        <<Ev("init", n, "maintenance_task.start", "")>>),
    t)

\* at_server_start run before the branch on the mode
InitHooks_StartBeforeBranch(s, n, mode) ==
  LET s2 == Log(s, <<Ev("init", n, "update_defaults", "")>>)
      s3 == AtInitAll(s2, n)
      s4 == Log(s3, Dispatch("at_server_init", "init", n))
      s5 == Log(s4, Dispatch("at_server_start", "init", n))
  IN StartBranch(s5, n, mode)

\* the steps of run_init_hooks after the scheduler start, in their order
InitHooks(s, n, mode) ==
  LET s2 == Log(s, <<Ev("init", n, "update_defaults", "")>>)
      s3 == AtInitAll(s2, n)
      s4 == Log(s3, Dispatch("at_server_init", "init", n))
      s5 == StartBranch(s4, n, mode)
  IN IF s3.pc = "raised" THEN s3
     ELSE Log(s5, Dispatch("at_server_start", "init", n))

\* Evennia.run_init_hooks(mode), call number n of this process, at time t
RunInitHooksBody(s, n, mode, t) ==
  InitHooks(StartMaintenance([s EXCEPT !.ready = TRUE], n, t), n, mode)

\* the Portal's sync arrives over AMP: notify_server_ready(mode)
RunInitHooksUpTo(limit) ==
  /\ Alive
  /\ amp_protocol
  /\ init_calls < limit
  /\ \E mode \in InitModes :
       LET s == RunInitHooksBody(Here(<<>>), init_calls + 1, mode, now)
       IN /\ Commit(s)
          /\ inits' = Append(inits, [mode |-> mode, trace |-> s.trace])
  /\ init_calls' = init_calls + 1
  /\ UNCHANGED <<now, settings, amp_protocol, frames, sigint,
                 runtime_at_start, restarts>>

RunInitHooks == RunInitHooksUpTo(MaxInits)
\* the handshake of a process whose Portal keeps to one notify_server_ready
Handshake == RunInitHooksUpTo(1)

(* ----------------------- Evennia.run_initial_setup --------------------- *)
StepIndex(step) == CHOOSE i \in 1..Len(SetupSteps) : SetupSteps[i] = step

\* initial_setup.handle_setup(last_step): the steps from last_step on (all of
\* them without one), each recorded in the store before it runs so that a
\* failed step is the one retried; "done" is recorded after the last step
HandleSetup(s, n, last_step, out) ==
  LET from == IF last_step = "" THEN 1 ELSE StepIndex(last_step)
      upto == IF out.kind = "ok" \/ out.at < from THEN Len(SetupSteps) ELSE out.at
      ends == IF upto = Len(SetupSteps) /\ (out.kind = "ok" \/ out.at < from)
              THEN "ok" ELSE out.kind
      s1 == Log(s, <<Ev("setup", n, "handle_setup", last_step)>>
                     \o [i \in 1..(upto - from + 1) |->
                          Ev("setup", n, "step", SetupSteps[from + i - 1])])
  IN [s1 EXCEPT !.last_initial_setup_step =
                   IF ends = "ok" THEN "done" ELSE SetupSteps[upto],
                !.reactor = IF ends = "killed" THEN "stopped" ELSE @,
                !.pc = ends]

\* a start that runs the whole setup again whenever it has not been finished
RunInitialSetupBody_FromScratch(s, n, out) ==
  LET s1 == IF s.last_initial_setup_step \notin {"done", "-1"}
            THEN HandleSetup(s, n, "", out)
            ELSE [s EXCEPT !.pc = "ok"]
  IN IF s1.pc = "raised"
     THEN Log(s1, <<Ev("setup", n, "portal_shutdown", "")>>)
     ELSE s1

\* Evennia.run_initial_setup(), call number n on this store
RunInitialSetupBody(s, n, out) ==
  LET last == s.last_initial_setup_step
      s1 == IF last = "" THEN HandleSetup(s, n, "", out)
            ELSE IF last \notin {"done", "-1"} THEN HandleSetup(s, n, last, out)
            ELSE [s EXCEPT !.pc = "ok"]
  IN IF s1.pc = "raised"
     THEN Log(s1, <<Ev("setup", n, "portal_shutdown", "")>>)
     ELSE s1

\* the AMP connection to the Portal is established: run_initial_setup() is
\* called, once in the life of a process
RunInitialSetup ==
  /\ Alive
  /\ amp_protocol
  /\ init_calls = 0
  /\ \A k \in 1..Len(setups) : setups[k].proc # restarts
  /\ \E out \in SetupOutcomes :
       LET n == Len(setups) + 1
           s == RunInitialSetupBody(Here(<<>>), n, out)
       IN Commit([s EXCEPT !.setups =
                    Append(@, [proc |-> restarts,
                               marker |-> last_initial_setup_step,
                               after |-> s.last_initial_setup_step,
                               outcome |-> s.pc, trace |-> s.trace])])
  /\ UNCHANGED <<now, settings, amp_protocol, init_calls, frames, inits, sigint,
                 runtime_at_start, restarts>>

\* the process is killed from outside, with no stop sequence
Kill ==
  /\ Alive
  /\ reactor' = "stopped"
  /\ UNCHANGED <<now, settings, world, gametime, logs, amp_protocol,
                 shutdown_complete, maintenance_tasks, init_calls, frames,
                 inits, sigint, runtime_at_start, restarts>>

(* ---------------------- Evennia.at_post_portal_sync -------------------- *)
\* the argument mode == "reload" of the handlers' restore(), as it prints
Persistent(mode) == IF mode = "reload" THEN "True" ELSE "False"

\* a post-sync that leaves the restart-mode marker in the store
AtPostPortalSync_KeepsMarker(s, n, mode) ==
  Log([s EXCEPT !.script_state = [x \in DOMAIN @ |->
                                    IF @[x] = "paused" THEN "active" ELSE @[x]]],
      <<Ev("sync", n, "MONITOR_HANDLER.restore", Persistent(mode)),
        Ev("sync", n, "TICKER_HANDLER.restore", Persistent(mode)),
        Ev("sync", n, "update_scripts_after_server_start", ""),
        Ev("sync", n, "TASK_HANDLER.load", ""),
        Ev("sync", n, "TASK_HANDLER.create_delays", ""),
        Ev("sync", n, "create_default_channels", "")>>)

\* Evennia.at_post_portal_sync(mode): the monitor and ticker state restored,
\* the paused scripts un-paused, the task handler started, the default
\* channels created, and last the restart-mode marker deleted
AtPostPortalSync(s, n, mode) ==
  Log([s EXCEPT !.script_state = [x \in DOMAIN @ |->
                                    IF @[x] = "paused" THEN "active" ELSE @[x]],
                !.conf = ConfDelete(@, "server_restart_mode")],
      <<Ev("sync", n, "MONITOR_HANDLER.restore", Persistent(mode)),
        Ev("sync", n, "TICKER_HANDLER.restore", Persistent(mode)),
        Ev("sync", n, "update_scripts_after_server_start", ""),
        Ev("sync", n, "TASK_HANDLER.load", ""),
        Ev("sync", n, "TASK_HANDLER.create_delays", ""),
        Ev("sync", n, "create_default_channels", ""),
        Ev("sync", n, "conf.delete", "server_restart_mode")>>)

\* the Portal has synced its sessions back after the handshake: the AMP
\* client calls at_post_portal_sync(mode), once in the life of a process
PostPortalSync ==
  /\ Alive
  /\ amp_protocol
  /\ init_calls > 0
  /\ post_syncs = <<>>
  /\ \E mode \in InitModes :
       LET s == AtPostPortalSync(Here(<<>>), 1, mode)
       IN Commit([s EXCEPT !.post_syncs =
                    Append(@, [mode |-> mode,
                               before |-> conf["server_restart_mode"],
                               after |-> s.conf["server_restart_mode"],
                               trace |-> s.trace])])
  /\ UNCHANGED <<now, settings, amp_protocol, init_calls, frames, inits, sigint,
                 runtime_at_start, restarts>>

(* --------------------------- Evennia.shutdown -------------------------- *)
\* a guard that tests the flag the wrong way round
AlreadyShutDown_FlagInverted(rs, sc) == ~rs /\ sc

\* if _reactor_stopping and hasattr(self, "shutdown_complete"): return
AlreadyShutDown(rs, sc) == rs /\ sc

\* gametime.runtime(): the accumulated runtime plus the time since the last tick
GametimeRuntime(s, t) == s.SERVER_RUNTIME + (t - s.RUNTIME_LAST_UPDATED)

\* SESSIONS.all_sessions_portal_sync(): push the session mirror to the Portal
\* and wait for the answer; skipped when the channel is not there
AllSessionsPortalSync(s, n) ==
  IF amp_protocol
  THEN [Log(s, <<Ev("stop", n, "all_sessions_portal_sync", "")>>)
          EXCEPT !.pc = "sync"]
  ELSE Log(s, <<Ev("stop", n, "sync_skipped", "")>>)

\* a reload that runs the scripts' hooks before the objects' and the accounts'
ReloadInstances_ScriptsFirst(s, n) ==
  LET objs == Filter(ObjectIds, s.objects_db)
      accs == Filter(AccountIds, s.accounts_db)
      scr == [i \in 1..Len(ScriptIds) |->
                (IF s.script_state[ScriptIds[i]] = "active"
                 THEN <<Ev("stop", n, "_pause_task", ScriptIds[i])>> ELSE <<>>)
                \o <<Ev("stop", n, "at_server_reload", ScriptIds[i])>>]
  IN Log([s EXCEPT
            !.conf = ConfSet(@, "server_restart_mode", "reload"),
            !.script_state = [x \in DOMAIN @ |->
                                IF @[x] = "active" THEN "paused" ELSE @[x]]],
         <<Ev("stop", n, "conf", "server_restart_mode")>>
           \o Concat(scr)
           \o Each(objs, "stop", n, "at_server_reload")
           \o Each(accs, "stop", n, "at_server_reload"))

\* mode == "reload", up to the session sync: the restart-mode marker, then
\* at_server_reload on every cached object, account and script
ReloadInstances(s, n) ==
  LET objs == Filter(ObjectIds, s.objects_db)
      accs == Filter(AccountIds, s.accounts_db)
      scr == [i \in 1..Len(ScriptIds) |->
                (IF s.script_state[ScriptIds[i]] = "active"
                 THEN <<Ev("stop", n, "_pause_task", ScriptIds[i])>> ELSE <<>>)
                \o <<Ev("stop", n, "at_server_reload", ScriptIds[i])>>]
      s1 == Run([s EXCEPT !.conf = ConfSet(@, "server_restart_mode", "reload")],
                <<Ev("stop", n, "conf", "server_restart_mode")>>
                  \o Each(objs, "stop", n, "at_server_reload")
                  \o Each(accs, "stop", n, "at_server_reload")
                  \o Concat(scr))
      paused == Called(s1, Len(s.trace), "_pause_task")
  IN [s1 EXCEPT !.script_state = [x \in DOMAIN @ |->
                                   IF x \in paused THEN "paused" ELSE @[x]]]

\* a reset that clears the accounts' is_connected flag as a shutdown does
ResetInstances_Disconnects(s, n) ==
  LET accs == Filter(AccountIds, s.accounts_db)
  IN Log([s EXCEPT !.is_connected = @ \ {accs[i] : i \in 1..Len(accs)}],
         Each(accs, "stop", n, "is_connected=False")
           \o Each(Filter(ObjectIds, s.objects_db), "stop", n, "at_server_shutdown")
           \o Each(accs, "stop", n, "at_server_shutdown"))

\* mode == "reset": at_server_shutdown on every cached object and account
ResetInstances(s, n) ==
  Run(s, Each(Filter(ObjectIds, s.objects_db), "stop", n, "at_server_shutdown")
         \o Each(Filter(AccountIds, s.accounts_db), "stop", n, "at_server_shutdown"))

\* mode == "shutdown": is_connected cleared, at_server_shutdown on the
\* objects, unpuppet_all and at_server_shutdown on the accounts, sessids cleared
ShutdownInstances(s, n) ==
  LET objs == Filter(ObjectIds, s.objects_db)
      accs == Filter(AccountIds, s.accounts_db)
      acc == [i \in 1..Len(accs) |->
                <<Ev("stop", n, "unpuppet_all", accs[i]),
                  Ev("stop", n, "at_server_shutdown", accs[i])>>]
      s1 == Run([s EXCEPT !.is_connected = @ \ {accs[i] : i \in 1..Len(accs)}],
                Each(accs, "stop", n, "is_connected=False")
                  \o Each(objs, "stop", n, "at_server_shutdown")
                  \o Concat(acc))
  IN IF s1.pc = "raised" THEN s1
     ELSE Log([s1 EXCEPT !.sessid = {}], <<Ev("stop", n, "clear_all_sessids", "")>>)

\* a reset that asks for the session push without looking at the channel
ShutdownHead_ResetAlwaysSyncs(s, n, mode) ==
  IF mode = "reload" THEN AllSessionsPortalSync(ReloadInstances(s, n), n)
  ELSE IF mode = "reset" THEN AllSessionsPortalSync(ResetInstances(s, n), n)
  ELSE ShutdownInstances(s, n)

\* a head that pushes the sessions before the reload hooks run
ShutdownHead_SyncFirst(s, n, mode) ==
  IF mode = "reload" THEN ReloadInstances(AllSessionsPortalSync(s, n), n)
  ELSE IF mode = "reset"
       THEN IF amp_protocol
            THEN AllSessionsPortalSync(ResetInstances(s, n), n)
            ELSE ResetInstances(s, n)
  ELSE ShutdownInstances(s, n)

\* the first stretch of shutdown(mode): up to the session sync
ShutdownHead(s, n, mode) ==
  LET s1 == IF mode = "reload" THEN ReloadInstances(s, n)
            ELSE IF mode = "reset" THEN ResetInstances(s, n)
            ELSE ShutdownInstances(s, n)
  IN IF s1.pc = "raised" THEN s1
     ELSE IF mode = "reload" THEN AllSessionsPortalSync(s1, n)
     ELSE IF mode = "reset" /\ amp_protocol THEN AllSessionsPortalSync(s1, n)
     ELSE s1

\* the mode's own stop work after the session sync
ModeStop(s, n, mode) ==
  IF mode = "reload"
  THEN Log(s, Dispatch("at_server_reload_stop", "stop", n)
              \o <<Ev("stop", n, "MONITOR_HANDLER.save", "")>>)
  ELSE LET act == SelectSeq(ScriptIds, LAMBDA x : s.script_state[x] = "active")
           scr == [i \in 1..Len(act) |->
                     <<Ev("stop", n, "_pause_task", act[i]),
                       Ev("stop", n, "at_server_shutdown", act[i])>>]
           s1 == Run(s, Concat(scr))
           paused == Called(s1, Len(s.trace), "_pause_task")
           s2 == [s1 EXCEPT !.script_state = [x \in DOMAIN @ |->
                                   IF x \in paused THEN "paused" ELSE @[x]]]
       IN IF s2.pc = "raised" THEN s2
          ELSE Log([s2 EXCEPT !.conf = ConfSet(@, "server_restart_mode", "reset")],
                   <<Ev("stop", n, "conf", "server_restart_mode")>>
                     \o Dispatch("at_server_cold_stop", "stop", n))

\* at_server_stop run before the ticker state is saved
SaveAndStop_StopFirst(s, n) ==
  Log(s, Dispatch("at_server_stop", "stop", n)
         \o <<Ev("stop", n, "TICKER_HANDLER.save", "")>>)

\* TICKER_HANDLER.save(); self.at_server_stop()
SaveAndStop(s, n) ==
  Log(s, <<Ev("stop", n, "TICKER_HANDLER.save", "")>>
         \o Dispatch("at_server_stop", "stop", n))

\* if hasattr(self, "web_root"): yield self.web_root.empty_threadpool()
EmptyThreadpool(s, n) ==
  IF has_web_root
  THEN [Log(s, <<Ev("stop", n, "empty_threadpool", "")>>) EXCEPT !.pc = "drain"]
  ELSE s

\* the stretch between the session sync and the thread-pool drain
ShutdownMiddle(s, n, mode) ==
  LET s1 == ModeStop(s, n, mode)
  IN IF s1.pc = "raised" THEN s1 ELSE EmptyThreadpool(SaveAndStop(s1, n), n)

\* if not _reactor_stopping: mark the shutdown complete, schedule reactor.stop
KillServer(s, n, rs) ==
  IF rs THEN s
  ELSE Log([s EXCEPT !.shutdown_complete = TRUE, !.reactor = "stop_scheduled"],
           <<Ev("stop", n, "callLater(reactor.stop)", "")>>)

\* ServerConfig.objects.conf("runtime", _GAMETIME_MODULE.runtime())
SaveRuntime(s, n, t) ==
  Log([s EXCEPT !.conf = ConfSet(@, "runtime", GametimeRuntime(s, t))],
      <<Ev("stop", n, "conf", "runtime")>>)

\* a tail that saves the ticker state after the runtime
ShutdownTail_TickerAfterRuntime(s, n, rs, t) ==
  [Log(SaveRuntime(KillServer(s, n, rs), n, t),
       <<Ev("stop", n, "TICKER_HANDLER.save", "")>>) EXCEPT !.pc = "done"]

\* the last stretch of shutdown, after the thread-pool drain
ShutdownTail(s, n, rs, t) ==
  [SaveRuntime(KillServer(s, n, rs), n, t) EXCEPT !.pc = "done"]

\* the SIGINT wrapper chains reactor.stop() behind its shutdown call
AfterShutdown(s, n, origin) ==
  IF origin = "sigint" /\ s.pc \in {"done", "noop"}
  THEN Log([s EXCEPT !.reactor = "stopped"], <<Ev("stop", n, "reactor.stop", "")>>)
  ELSE s

\* run shutdown call n from one of its three stretches to its next suspension
FromTail(s, n, f, t) == AfterShutdown(ShutdownTail(s, n, f.rs, t), n, f.origin)
FromMiddle(s, n, f, t) ==
  LET s1 == ShutdownMiddle(s, n, f.mode)
  IN IF s1.pc \in {"drain", "raised"} THEN s1 ELSE FromTail(s1, n, f, t)
FromHead(s, n, f, t) ==
  LET s1 == ShutdownHead(s, n, f.mode)
  IN IF s1.pc \in {"sync", "raised"} THEN s1 ELSE FromMiddle(s1, n, f, t)

\* shutdown(mode, _reactor_stopping) is called: call number n of this process
ShutdownEnter(s, n, f, t) ==
  IF AlreadyShutDown(f.rs, s.shutdown_complete)
  THEN AfterShutdown([s EXCEPT !.pc = "noop"], n, f.origin)
  ELSE FromHead(s, n, f, t)

InFlight(fs) == {i \in 1..Len(fs) : fs[i].pc \in {"sync", "drain"}}

\* a new call record; overlap and after say what the earlier calls were doing
Frame(mode, rs, origin) ==
  [mode |-> mode, rs |-> rs, origin |-> origin, pc |-> "run", trace |-> <<>>,
   portal |-> amp_protocol,
   overlap |-> InFlight(frames) # {},
   after |-> {i \in 1..Len(frames) : frames[i].pc = "done"}]

Call(f) ==
  LET n == Len(frames) + 1
      s == ShutdownEnter(Here(<<>>), n, f, now)
  IN /\ Commit(s)
     /\ frames' = Append(frames, [f EXCEPT !.pc = s.pc, !.trace = s.trace])

\* shutdown call n is resumed after the suspension it waits in
Resume(n, s) ==
  /\ Commit(s)
  /\ frames' = [frames EXCEPT ![n].pc = s.pc, ![n].trace = s.trace]

\* a stop is requested from inside the running server
ShutdownRequestUpTo(limit) ==
  /\ Alive
  /\ init_calls > 0
  /\ Len(frames) < limit
  /\ \E mode \in StopModes, rs \in BOOLEAN : Call(Frame(mode, rs, "request"))
  /\ UNCHANGED <<now, settings, amp_protocol, init_calls, inits, sigint,
                 runtime_at_start, restarts>>

ShutdownRequest == ShutdownRequestUpTo(MaxCalls)
\* the stop request of a process that is asked to stop once
StopRequest == ShutdownRequestUpTo(1)

\* the Portal answers the session sync of call n
SyncDone ==
  /\ Alive
  /\ \E n \in 1..Len(frames) :
       /\ frames[n].pc = "sync"
       /\ Resume(n, FromMiddle(Log(Here(frames[n].trace),
                                   <<Ev("stop", n, "sync_done", "")>>),
                               n, frames[n], now))
  /\ UNCHANGED <<now, settings, amp_protocol, init_calls, inits, sigint,
                 runtime_at_start, restarts>>

\* the web thread pool of call n has drained
DrainDone ==
  /\ Alive
  /\ \E n \in 1..Len(frames) :
       /\ frames[n].pc = "drain"
       /\ Resume(n, FromTail(Log(Here(frames[n].trace),
                                 <<Ev("stop", n, "drain_done", "")>>),
                             n, frames[n], now))
  /\ UNCHANGED <<now, settings, amp_protocol, init_calls, inits, sigint,
                 runtime_at_start, restarts>>

(* ------------------------- the SIGINT wrapper -------------------------- *)
\* _wrap_sigint_handler: with a web_root, shutdown("reload", True) then
\* reactor.stop() are chained behind empty_threadpool(); without one the
\* shutdown call is only the Deferred's canceller and reactor.stop() alone
\* is chained; either way the chain is fired at the latest one second later
SigInt ==
  /\ Alive
  /\ sigint = "none"
  /\ sigint' = IF has_web_root THEN "wait" ELSE "timer"
  /\ UNCHANGED <<now, settings, world, gametime, logs, amp_protocol, reactor,
                 shutdown_complete, maintenance_tasks, init_calls, frames,
                 inits, runtime_at_start, restarts>>

\* the chain fires: self.shutdown("reload", _reactor_stopping=True)
SigIntShutdown ==
  /\ Alive
  /\ sigint = "wait"
  /\ Len(frames) < MaxCalls
  /\ Call(Frame("reload", TRUE, "sigint"))
  /\ sigint' = "fired"
  /\ UNCHANGED <<now, settings, amp_protocol, init_calls, inits,
                 runtime_at_start, restarts>>

\* without a web_root the chain holds reactor.stop() alone
SigIntTimer ==
  /\ Alive
  /\ sigint = "timer"
  /\ sigint' = "fired"
  /\ reactor' = "stopped"
  /\ UNCHANGED <<now, settings, world, gametime, logs, amp_protocol,
                 shutdown_complete, maintenance_tasks, init_calls, frames,
                 inits, runtime_at_start, restarts>>

(* ----------------------- the process and its end ----------------------- *)
\* reactor.callLater(1, reactor.stop) comes due
ReactorStop ==
  /\ reactor = "stop_scheduled"
  /\ reactor' = "stopped"
  /\ UNCHANGED <<now, settings, world, gametime, logs, amp_protocol,
                 shutdown_complete, maintenance_tasks, init_calls, frames,
                 inits, sigint, runtime_at_start, restarts>>

\* a new Server process is started on the same durable store
Restart ==
  /\ reactor = "stopped"
  /\ restarts < MaxRestarts
  /\ restarts' = restarts + 1
  /\ runtime_at_start' = ConfGet(conf, "runtime", 0)
  /\ amp_protocol' = FALSE
  /\ reactor' = "running"
  /\ shutdown_complete' = FALSE
  /\ maintenance_tasks' = 0
  /\ init_calls' = 0
  /\ MAINTENANCE_COUNT' = 0
  /\ LAST_SNAPSHOT' = 0
  /\ SERVER_RUNTIME' = 0
  /\ RUNTIME_LAST_UPDATED' = 0
  /\ frames' = <<>>
  /\ inits' = <<>>
  /\ ticks' = <<>>
  /\ post_syncs' = <<>>
  /\ sigint' = "none"
  /\ UNCHANGED <<now, settings, world, setups>>

(* --------------------------- specifications ---------------------------- *)
\* one process: handshake, stop requests, SIGINT, up to the reactor's stop
Next ==
  \/ AmpConnect
  \/ Handshake
  \/ ShutdownRequest
  \/ SyncDone
  \/ DrainDone
  \/ SigInt
  \/ SigIntShutdown
  \/ SigIntTimer
  \/ ReactorStop

Spec == Init /\ [][Next]_vars

\* one process: the handshake, repeated or not, and the maintenance ticks
NextInit ==
  \/ AmpConnect
  \/ RunInitHooks
  \/ MaintenanceTick

SpecInit == Init /\ [][NextInit]_vars

\* the life of the Server over its restarts, on the wall clock
NextLife ==
  \/ AdvanceTime
  \/ AmpConnect
  \/ Handshake
  \/ MaintenanceTick
  \/ StopRequest
  \/ SyncDone
  \/ DrainDone
  \/ SigInt
  \/ SigIntShutdown
  \/ SigIntTimer
  \/ ReactorStop
  \/ Restart

SpecLife == Init /\ [][NextLife]_vars

\* one process that is asked to stop once and may be interrupted by a SIGINT
NextStop ==
  \/ AmpConnect
  \/ Handshake
  \/ StopRequest
  \/ SyncDone
  \/ DrainDone
  \/ SigInt
  \/ SigIntShutdown
  \/ SigIntTimer
  \/ ReactorStop

SpecStop == Init /\ [][NextStop]_vars

\* one process with any idle timeout, on the wall clock: handshake and ticks
NextSweep ==
  \/ AdvanceTime
  \/ AmpConnect
  \/ Handshake
  \/ MaintenanceTick

SpecSweep == InitSweep /\ [][NextSweep]_vars

\* one process that stays up for hours
NextLongRun ==
  \/ AmpConnect
  \/ Handshake
  \/ LongRunTick

SpecLongRun == Init /\ [][NextLongRun]_vars

\* one process that is asked to stop once, with hooks that may raise
NextFault ==
  \/ AmpConnect
  \/ Handshake
  \/ StopRequest
  \/ SyncDone
  \/ DrainDone
  \/ ReactorStop

SpecFault == InitFault /\ [][NextFault]_vars

\* one process that is asked to stop once and may have lost its Portal
NextPortalDown ==
  \/ AmpConnect
  \/ Handshake
  \/ AmpLost
  \/ StopRequest
  \/ SyncDone
  \/ DrainDone
  \/ ReactorStop

SpecPortalDown == Init /\ [][NextPortalDown]_vars

\* the starts of the Server on one store, each of which may be killed
NextSetup ==
  \/ AmpConnect
  \/ RunInitialSetup
  \/ Kill
  \/ Restart

SpecSetup == InitSetup /\ [][NextSetup]_vars

\* one process that is asked to stop once, with any start/stop modules
NextDispatch ==
  \/ AmpConnect
  \/ Handshake
  \/ StopRequest
  \/ SyncDone
  \/ DrainDone
  \/ ReactorStop

SpecDispatch == InitDispatch /\ [][NextDispatch]_vars

\* the Server over a restart: handshake, post-sync, one stop request
NextSync ==
  \/ AmpConnect
  \/ Handshake
  \/ PostPortalSync
  \/ StopRequest
  \/ SyncDone
  \/ DrainDone
  \/ ReactorStop
  \/ Restart

SpecSync == Init /\ [][NextSync]_vars

(* ------------------------------ the claims ----------------------------- *)
InstanceHooks == {"at_init", "at_server_reload", "at_server_shutdown"}
ServerHooks == {"at_server_init", "at_server_start", "at_server_stop",
                "at_server_reload_start", "at_server_reload_stop",
                "at_server_cold_start", "at_server_cold_stop"}
IsHook(e) == e.op \in InstanceHooks \cup ServerHooks
IsWrite(e) == e.op \in {"conf", "MONITOR_HANDLER.save", "TICKER_HANDLER.save"}
IsRuntimeWrite(e) == e.op = "conf" /\ e.who = "runtime"
IsModeWrite(e) == e.op = "conf" /\ e.who = "server_restart_mode"
IsTerm(e) == e.op \in {"callLater(reactor.stop)", "reactor.stop"}

Idx(tr, P(_)) == {i \in 1..Len(tr) : P(tr[i])}
Ops(tr, ops) == {i \in 1..Len(tr) : tr[i].op \in ops}
\* the rank of each event of a trace under a ranking of the events
Ranks(tr, Rank(_)) == [i \in 1..Len(tr) |-> Rank(tr[i])]
\* the ranks of the events that the ranking places (rank above 0), in order
Placed(tr, Rank(_)) == SelectSeq(Ranks(tr, Rank), LAMBDA r : r > 0)
\* the events that a ranking places (rank above 0) come in the order of
\* their ranks
Ordered(rk) ==
  LET placed == SelectSeq(rk, LAMBDA r : r > 0)
  IN \A i \in 1..(Len(placed) - 1) : placed[i] <= placed[i + 1]
Count(rk, r) == Cardinality({i \in DOMAIN rk : rk[i] = r})
\* the call did nothing of a teardown: no hook, no durable write
NoTeardown(tr) == Idx(tr, IsHook) = {} /\ Idx(tr, IsWrite) = {}
FrameIds == 1..Len(frames)

\* C1 as stated: a shutdown call made after an earlier call has run to its
\* end, with no call in flight, runs no hook and writes nothing, whatever
\* the _reactor_stopping arguments of the two calls.
C1_SecondCallNoOp_AsStated ==
  \A n \in FrameIds :
    (frames[n].after # {} /\ ~frames[n].overlap) => NoTeardown(frames[n].trace)

\* C1 amended: a shutdown call with _reactor_stopping set, made after a call
\* without _reactor_stopping has run to its end (and so set shutdown_complete),
\* runs no hook and writes nothing.
C1_StoppingCallAfterCompleteNoOp ==
  \A n \in FrameIds :
    (frames[n].rs /\ \E j \in frames[n].after : ~frames[j].rs)
      => NoTeardown(frames[n].trace)

C1_Witness ==
  \E n \in FrameIds :
    /\ frames[n].rs
    /\ frames[n].pc = "noop"
    /\ \E j \in frames[n].after :
         ~frames[j].rs /\ Idx(frames[j].trace, IsRuntimeWrite) # {}

\* C2: a shutdown call made while an earlier call is suspended at the session
\* sync or at the thread-pool drain runs no hook and writes nothing.
C2_InFlightCallCoalesced ==
  \A n \in FrameIds : frames[n].overlap => NoTeardown(frames[n].trace)

\* C3: the runtime in the durable store never decreases, over ticks, stop
\* sequences of any mode and process restarts, with or without a tick before
\* the stop sequence.
C3_RuntimeNeverDecreases ==
  [][ConfGet(conf', "runtime", 0) >= ConfGet(conf, "runtime", 0)]_vars

\* a restarted process with a stored runtime above zero has run a stop
\* sequence to its runtime write before any maintenance tick
C3_Witness ==
  /\ restarts > 0
  /\ runtime_at_start > 0
  /\ MAINTENANCE_COUNT = 0
  /\ \E n \in FrameIds : Idx(frames[n].trace, IsRuntimeWrite) # {}

\* a later tick of a restarted process has advanced the stored runtime
C3_WitnessTick ==
  /\ restarts > 0
  /\ MAINTENANCE_COUNT > 1
  /\ ConfGet(conf, "runtime", 0) > runtime_at_start

\* the modules that define a hook
Defining(hook) ==
  {SERVER_STARTSTOP_MODULES[i] : i \in
     {j \in 1..Len(SERVER_STARTSTOP_MODULES) :
        hook \in ModuleHooks[SERVER_STARTSTOP_MODULES[j]]}}
\* the hook ran exactly once on each module that defines it
OncePerModule(tr, hook) ==
  LET calls == Ops(tr, {hook})
  IN \A m \in Defining(hook) :
       Cardinality({i \in calls : tr[i].who = m}) = 1

C4Rank(e) ==
  IF IsRuntimeWrite(e) THEN 2
  ELSE IF IsWrite(e) \/ e.op \in {"at_server_stop", "empty_threadpool", "drain_done"}
       THEN 1
  ELSE 0

\* C4: in every stop sequence the runtime write is the last durable write: it
\* follows the restart-mode write, the ticker save, the at_server_stop hooks
\* and the thread-pool drain, no durable write of the sequence follows it, and
\* a sequence that has run to its end has made it.
C4_RuntimeWriteLast ==
  \A n \in FrameIds :
    LET tr == frames[n].trace
        rk == Placed(tr, C4Rank)
    IN /\ Count(rk, 2) <= 1
       /\ Ordered(rk)
       /\ frames[n].pc = "done" =>
            /\ Count(rk, 2) = 1
            /\ Idx(tr, IsModeWrite) # {}
            /\ Ops(tr, {"TICKER_HANDLER.save"}) # {}
            /\ Ops(tr, {"at_server_stop"}) # {}

\* a reload and a shutdown sequence have each run through the drain to the end
C4_Witness ==
  \A m \in {"reload", "shutdown"} :
    \E n \in FrameIds :
      /\ frames[n].mode = m
      /\ frames[n].pc = "done"
      /\ Ops(frames[n].trace, {"drain_done"}) # {}

\* C5 as stated: in a reload stop sequence no hook runs before the session
\* snapshot has been pushed to the Portal.
C5_SyncBeforeAnyHook_AsStated ==
  \A n \in FrameIds :
    frames[n].mode = "reload" =>
      LET tr == frames[n].trace
      IN \A i \in Idx(tr, IsHook) :
           \E j \in Ops(tr, {"all_sessions_portal_sync"}) : j < i

C5Rank(e) ==
  CASE e.op = "at_server_reload" -> 1
    [] e.op = "all_sessions_portal_sync" -> 2
    [] e.op \in {"at_server_reload_stop", "at_server_stop"} -> 3
    [] OTHER -> 0

\* C5 amended: in a reload stop sequence the session snapshot is pushed after
\* at_server_reload has run on the cached objects, accounts and scripts, and
\* before at_server_reload_stop and at_server_stop.
C5_SyncAfterInstanceHooks ==
  \A n \in FrameIds :
    frames[n].mode = "reload" =>
      LET tr == frames[n].trace
          rk == Ranks(tr, C5Rank)
      IN /\ Ordered(rk)
         /\ Count(rk, 2) > 0 =>
              \A x \in {ScriptIds[i] : i \in 1..Len(ScriptIds)} :
                \E i \in DOMAIN rk : rk[i] = 1 /\ tr[i].who = x

C5_Witness ==
  \E n \in FrameIds :
    /\ frames[n].mode = "reload"
    /\ frames[n].pc = "done"
    /\ Ops(frames[n].trace, {"all_sessions_portal_sync"}) # {}
    /\ Ops(frames[n].trace, {"at_server_reload_stop"}) # {}

C6Rank(e) ==
  CASE e.op = "all_sessions_portal_sync" -> 1
    [] e.op = "sync_done" -> 2
    [] e.op \in {"at_server_reload_stop", "at_server_cold_stop"} -> 3
    [] e.op = "TICKER_HANDLER.save" -> 4
    [] e.op = "at_server_stop" -> 5
    [] e.op = "empty_threadpool" -> 6
    [] e.op = "drain_done" -> 7
    [] IsTerm(e) -> 8
    [] OTHER -> 0

\* C6: in every stop sequence the mode's own stop hooks (at_server_reload_stop
\* for reload, at_server_cold_stop otherwise, never both) come first, then the
\* ticker save, then at_server_stop once per module, then the thread-pool
\* drain, then the termination signal; and the signal follows the end of the
\* session sync and of the drain whenever the sequence began one.
C6_TailOrder ==
  \A n \in {k \in FrameIds : frames[k].pc # "noop"} :
    LET tr == frames[n].trace
        rk == Placed(tr, C6Rank)
        own == IF frames[n].mode = "reload" THEN "at_server_reload_stop"
               ELSE "at_server_cold_stop"
        other == IF frames[n].mode = "reload" THEN "at_server_cold_stop"
                 ELSE "at_server_reload_stop"
    IN /\ Ordered(rk)
       /\ Ops(tr, {other}) = {}
       /\ Count(rk, 4) <= 1
       /\ Count(rk, 5) <= Cardinality(Defining("at_server_stop"))
       /\ (Count(rk, 8) > 0 \/ frames[n].pc = "done") =>
            /\ OncePerModule(tr, "at_server_stop")
            /\ OncePerModule(tr, own)
            /\ Count(rk, 4) = 1
            /\ Count(rk, 1) > 0 => Count(rk, 2) > 0
            /\ Count(rk, 6) > 0 => Count(rk, 7) > 0

\* a reload and a reset sequence have each synced, drained and signalled
C6_Witness ==
  \A m \in {"reload", "reset"} :
    \E n \in FrameIds :
      /\ frames[n].mode = m
      /\ Ops(frames[n].trace, {"sync_done"}) # {}
      /\ Ops(frames[n].trace, {"drain_done"}) # {}
      /\ Idx(frames[n].trace, IsTerm) # {}

\* C7: no per-instance hook and no server hook runs in a process that has not
\* yet received notify_server_ready (run_init_hooks).
C7_NoHookBeforeReady ==
  /\ \A n \in FrameIds :
       \A i \in Idx(frames[n].trace, IsHook) : frames[n].trace[i].ready
  /\ \A n \in 1..Len(inits) :
       \A i \in Idx(inits[n].trace, IsHook) : inits[n].trace[i].ready

\* C8: a second run_init_hooks call of a process starts no second maintenance
\* scheduler and runs no hook.
C8_SecondHandshakeIgnored ==
  /\ maintenance_tasks <= 1
  /\ \A n \in 2..Len(inits) : Idx(inits[n].trace, IsHook) = {}

C9Rank(e) ==
  CASE e.op = "maintenance_task.start" -> 1
    [] e.ctx = "tick" -> 2
    [] e.op = "update_defaults" -> 3
    [] e.op = "at_init" -> 4
    [] e.op = "at_server_init" -> 5
    [] e.op \in {"at_server_reload_start", "at_server_cold_start",
                 "_stop_task", "delete", "clear_all_sessids"} -> 6
    [] e.op = "at_server_start" -> 7
    [] OTHER -> 8

ColdWork == {"at_server_cold_start", "_stop_task", "delete"}
NonPersistentStopped ==
  \A x \in DOMAIN script_state :
    x \notin PersistentScripts => script_state[x] = "stopped"
GuestsDeleted ==
  /\ accounts_db \cap GuestAccounts = {}
  /\ objects_db \cap UNION {PlayableCharacters[g] : g \in GuestAccounts} = {}
\* the hooks the mode selects, and the work of a cold start in the trace
ModeSelectsHooks(tr, mode) ==
  /\ mode = "reload" =>
       /\ OncePerModule(tr, "at_server_reload_start")
       /\ Ops(tr, ColdWork) = {}
  /\ mode \in {"reset", "shutdown"} =>
       /\ OncePerModule(tr, "at_server_cold_start")
       /\ Ops(tr, {"at_server_reload_start"}) = {}
       /\ \A x \in DOMAIN script_state :
            x \notin PersistentScripts =>
              \E i \in Ops(tr, {"_stop_task"}) : tr[i].who = x
ColdStarted == \E n \in 1..Len(inits) : inits[n].mode \in {"reset", "shutdown"}

\* C10 as stated: reload runs at_server_reload_start only and no cold-start
\* work; reset and shutdown run at_server_cold_start, which stops the
\* non-persistent scripts and deletes the guest accounts and their characters,
\* and never at_server_reload_start.
C10_ModeSelectsStartHooks_AsStated ==
  /\ \A n \in 1..Len(inits) : ModeSelectsHooks(inits[n].trace, inits[n].mode)
  /\ ColdStarted => NonPersistentStopped /\ GuestsDeleted

\* C10 amended: as stated, but the guest accounts and their characters are
\* deleted only when GUEST_ENABLED is set; otherwise the cold start leaves
\* them in place.
C10_ModeSelectsStartHooks ==
  /\ \A n \in 1..Len(inits) : ModeSelectsHooks(inits[n].trace, inits[n].mode)
  /\ ColdStarted => NonPersistentStopped
  /\ (ColdStarted /\ GUEST_ENABLED) => GuestsDeleted
  /\ ~GUEST_ENABLED => accounts_db = {"a1", "g1"} /\ objects_db = {"o1", "c1"}
  /\ ~ColdStarted =>
       /\ accounts_db = {"a1", "g1"} /\ objects_db = {"o1", "c1"}
       /\ \A x \in DOMAIN script_state : script_state[x] = "active"

\* a reload handshake and a reset handshake with guests enabled
C10_Witness ==
  /\ GUEST_ENABLED
  /\ \E n \in 1..Len(inits) : inits[n].mode = "reload"
  /\ \E n \in 1..Len(inits) : inits[n].mode = "reset"

\* C11: a run_init_hooks call with a mode other than shutdown clears no
\* session-id reference: it makes no clear_all_sessids call, and as long as no
\* shutdown-mode start and no stop sequence has run, every persisted object
\* still holds its session id.
C11_ResetStartKeepsSessids ==
  /\ \A n \in 1..Len(inits) :
       inits[n].mode # "shutdown" =>
         Ops(inits[n].trace, {"clear_all_sessids"}) = {}
  /\ ((\A n \in 1..Len(inits) : inits[n].mode # "shutdown") /\ frames = <<>>)
       => objects_db \subseteq sessid

\* C12: once a reload stop sequence has run to its end, alone in its process,
\* every persistent script is paused; once a shutdown stop sequence has run to
\* its end, every script is stopped, none active or paused.
C12_ScriptsAfterStop ==
  \A n \in FrameIds :
    frames[n].pc = "done" =>
      /\ (frames[n].mode = "reload" /\ Len(frames) = 1) =>
           \A x \in PersistentScripts : script_state[x] = "paused"
      /\ frames[n].mode = "shutdown" =>
           \A x \in DOMAIN script_state : script_state[x] = "stopped"

\* the marker a stop sequence of the mode leaves for the next start
MarkerOf(mode) == IF mode = "reload" THEN "reload" ELSE "reset"

\* C13: at the step in which a stop sequence runs to its end, the stored
\* restart-mode marker is "reload" for mode reload, "reset" for reset and
\* shutdown.
C13_MarkerMatchesMode ==
  [][\A n \in 1..Len(frames') :
       (/\ frames'[n].pc = "done"
        /\ (n > Len(frames) \/ frames[n].pc # "done"))
         => conf'["server_restart_mode"] = <<MarkerOf(frames'[n].mode)>>]_vars

DisconnectOps == {"is_connected=False", "unpuppet_all", "clear_all_sessids"}
\* the shutdown-mode stop sequences that ran
Disconnecting == {n \in FrameIds : frames[n].mode = "shutdown" /\ frames[n].pc # "noop"}

\* C14: a stop sequence of mode reload or reset clears no is_connected flag,
\* unpuppets no account and clears no session id; one of mode shutdown does all
\* three, on every account; and as long as no shutdown-mode sequence has run
\* every account is still connected and the session mirror is whole.
C14_OnlyShutdownDisconnects ==
  /\ \A n \in FrameIds :
       LET tr == frames[n].trace
       IN IF n \in Disconnecting
          THEN /\ \A a \in accounts_db :
                    /\ \E i \in Ops(tr, {"is_connected=False"}) : tr[i].who = a
                    /\ \E i \in Ops(tr, {"unpuppet_all"}) : tr[i].who = a
               /\ Cardinality(Ops(tr, {"clear_all_sessids"})) = 1
               /\ accounts_db \cap is_connected = {}
               /\ sessid = {}
          ELSE Ops(tr, DisconnectOps) = {}
  /\ Disconnecting = {} =>
       /\ accounts_db \subseteq is_connected
       /\ DOMAIN sessions = {SessionIds[i] : i \in 1..Len(SessionIds)}

\* a shutdown sequence has cleared the flags, and a reload sequence beside it
\* has run its hooks on the accounts
C14_Witness ==
  /\ \E n \in FrameIds : frames[n].mode = "shutdown" /\ frames[n].pc = "done"
  /\ is_connected = {}
  /\ \E n \in FrameIds :
       /\ frames[n].mode = "reload"
       /\ frames[n].pc = "done"
       /\ Ops(frames[n].trace, {"at_server_reload"}) # {}

C15Rank(e) ==
  IF e.op \in {"at_server_reload", "at_server_shutdown"}
     /\ \E i \in 1..Len(AccountIds) : AccountIds[i] = e.who
  THEN 1
  ELSE IF e.op \in {"_pause_task", "at_server_reload", "at_server_shutdown"}
          /\ \E i \in 1..Len(ScriptIds) : ScriptIds[i] = e.who
       THEN 2
  ELSE 0

\* C15: in every stop sequence the at_server_reload or at_server_shutdown hook
\* of the accounts comes before the pause and the hook of any script, and by
\* the first of these every cached account has had its hook.
C15_AccountsBeforeScripts ==
  \A n \in FrameIds :
    LET tr == frames[n].trace
        rk == Ranks(tr, C15Rank)
    IN /\ Ordered(rk)
       /\ Count(rk, 2) > 0 =>
            \A a \in accounts_db : \E i \in DOMAIN rk : rk[i] = 1 /\ tr[i].who = a

\* a reset sequence paused the scripts, and a reload sequence ran beside it
C15_Witness ==
  /\ \E n \in FrameIds :
       /\ frames[n].mode = "reset"
       /\ frames[n].pc = "done"
       /\ Ops(frames[n].trace, {"_pause_task"}) # {}
  /\ \E n \in FrameIds :
       /\ frames[n].mode = "reload"
       /\ frames[n].pc = "done"
       /\ Count(Ranks(frames[n].trace, C15Rank), 2) > 0

TickIds == 1..Len(ticks)
UnpuppetOps == {"at_pre_unpuppet", "at_post_unpuppet(None, connection lost)",
                "tags.remove(puppeted)"}
\* the tagged objects without an account when the tick began
Orphans(tk) == {o \in tk.before.objects_db \cap tk.before.puppeted : o \notin has_account}
\* positions of the op on the object in the trace
On(tr, op, who) == {i \in 1..Len(tr) : tr[i].op = op /\ tr[i].who = who}

\* C16: on every tick after the first, each tagged object without an account
\* gets at_pre_unpuppet, then at_post_unpuppet(None, reason), then the removal
\* of its tag, each once; no other object gets any of the three; after such a
\* tick no tagged object without an account is left, and every tagged object
\* with an account still has its tag.
C16_OrphanSweep ==
  /\ \A k \in TickIds :
       ticks[k].n > 1 =>
         LET tr == ticks[k].trace
         IN /\ \A o \in Orphans(ticks[k]) :
                 /\ Cardinality(On(tr, "at_pre_unpuppet", o)) = 1
                 /\ Cardinality(On(tr, "at_post_unpuppet(None, connection lost)", o)) = 1
                 /\ Cardinality(On(tr, "tags.remove(puppeted)", o)) = 1
                 /\ \A i \in On(tr, "at_pre_unpuppet", o),
                       j \in On(tr, "at_post_unpuppet(None, connection lost)", o),
                       l \in On(tr, "tags.remove(puppeted)", o) : i < j /\ j < l
            /\ \A i \in Ops(tr, UnpuppetOps) : tr[i].who \in Orphans(ticks[k])
  /\ (\E k \in TickIds : ticks[k].n > 1) =>
       /\ {o \in objects_db \cap puppeted : o \notin has_account} = {}
       /\ ticks[1].before.puppeted \cap has_account \subseteq puppeted

\* a sweep found one puppet without its account beside one with it
C16_Witness ==
  \E k \in TickIds :
    /\ ticks[k].n > 1
    /\ Orphans(ticks[k]) # {}
    /\ ticks[k].before.puppeted \cap has_account # {}
    /\ Ops(ticks[k].trace, {"tags.remove(puppeted)"}) # {}

\* the sessions the idle sweep of the tick must disconnect
IdleNow(tk) ==
  {x \in DOMAIN tk.before.sessions :
     /\ (tk.t - tk.before.sessions[x]) > IDLE_TIMEOUT
     /\ (SessionAccount[x] = "" \/ SessionAccount[x] \notin NoIdleTimeout)}
C17Rank(e) ==
  CASE e.op = "to_disconnect.append" -> 1
    [] e.op = "disconnect(idle timeout exceeded)" -> 2
    [] OTHER -> 0

\* C17: on a tick with a threshold above zero the sessions disconnected are
\* exactly the mirrored ones idle for longer than the threshold whose account
\* is missing or not exempt, each once, with the reason "idle timeout
\* exceeded", and all are collected before the first is disconnected; a
\* session of an exempt account is never disconnected; with a threshold of
\* zero or less the sweep disconnects nothing.
C17_IdleSweep ==
  /\ \A k \in TickIds :
       LET tr == ticks[k].trace
           rk == Ranks(tr, C17Rank)
       IN IF IDLE_TIMEOUT > 0
          THEN /\ \A x \in IdleNow(ticks[k]) :
                    /\ Cardinality(On(tr, "to_disconnect.append", x)) = 1
                    /\ Cardinality(On(tr, "disconnect(idle timeout exceeded)", x)) = 1
               /\ \A i \in DOMAIN rk : rk[i] > 0 => tr[i].who \in IdleNow(ticks[k])
               /\ Ordered(rk)
               /\ \A i \in DOMAIN rk :
                    rk[i] > 0 => SessionAccount[tr[i].who] \notin NoIdleTimeout
          ELSE \A i \in DOMAIN rk : rk[i] = 0
  /\ ticks # <<>> =>
       LET tk == ticks[Len(ticks)]
       IN DOMAIN sessions =
            IF IDLE_TIMEOUT > 0 THEN (DOMAIN tk.before.sessions) \ IdleNow(tk)
            ELSE DOMAIN tk.before.sessions

\* a sweep disconnected an idle session and left an idle session of an exempt
\* account and a session that was not idle
C17_Witness ==
  \E k \in TickIds :
    LET tk == ticks[k]
    IN /\ IDLE_TIMEOUT > 0
       /\ Ops(tk.trace, {"disconnect(idle timeout exceeded)"}) # {}
       /\ \E x \in DOMAIN tk.before.sessions :
            /\ SessionAccount[x] \in NoIdleTimeout
            /\ (tk.t - tk.before.sessions[x]) > IDLE_TIMEOUT
       /\ \E x \in DOMAIN tk.before.sessions :
            /\ SessionAccount[x] \notin NoIdleTimeout
            /\ (tk.t - tk.before.sessions[x]) <= IDLE_TIMEOUT

\* C18: the first tick of a process disconnects no session and unpuppets no
\* object; every later tick disconnects the idle sessions and unpuppets the
\* puppets without an account.
C18_FirstTickSkipsSweeps ==
  \A k \in TickIds :
    LET tr == ticks[k].trace
    IN IF ticks[k].n = 1
       THEN /\ Ops(tr, {"disconnect(idle timeout exceeded)"}) = {}
            /\ Ops(tr, UnpuppetOps) = {}
       ELSE /\ IDLE_TIMEOUT > 0 =>
              \A x \in IdleNow(ticks[k]) :
                On(tr, "disconnect(idle timeout exceeded)", x) # {}
            /\ \A o \in Orphans(ticks[k]) : On(tr, "tags.remove(puppeted)", o) # {}

\* C19: the first tick of a process sets the runtime to the value stored when
\* the process started, every later tick adds the wall time since the tick
\* before, and every tick writes its runtime to the store: tick n persists
\* R + (tn - t1).
C19_RuntimeByElapsedTime ==
  \A k \in TickIds :
    /\ ticks[k].n = k
    /\ Cardinality(Idx(ticks[k].trace, IsRuntimeWrite)) = 1
    /\ k = 1 => ticks[k].runtime = runtime_at_start
    /\ k > 1 => ticks[k].runtime = ticks[k - 1].runtime + (ticks[k].t - ticks[k - 1].t)
    /\ ticks[k].runtime = runtime_at_start + (ticks[k].t - ticks[1].t)
    /\ k = Len(ticks) =>
         (SERVER_RUNTIME = ticks[k].runtime /\ LAST_SNAPSHOT = ticks[k].t)

\* a restarted process with a stored runtime has ticked twice, time passing
\* between the two ticks
C19_Witness ==
  /\ restarts > 0
  /\ runtime_at_start > 0
  /\ Len(ticks) >= 2
  /\ ticks[2].t > ticks[1].t

\* C20: tick number n of a process writes the runtime to the store, asks for
\* the conditional cache flush exactly when n mod 5 = 0, and drops the
\* persistence connection exactly when n mod 420 = 0.
C20_PeriodicWork ==
  \A k \in TickIds :
    LET tr == ticks[k].trace
    IN /\ ticks[k].n = k
       /\ Cardinality(Idx(tr, IsRuntimeWrite)) = 1
       /\ Cardinality(Ops(tr, {"conditional_flush"})) = (IF k % 5 = 0 THEN 1 ELSE 0)
       /\ Cardinality(Ops(tr, {"connection.close"})) = (IF k % 420 = 0 THEN 1 ELSE 0)

\* the process has ticked past its 420th tick
C20_Witness ==
  /\ Len(ticks) > 420
  /\ Ops(ticks[420].trace, {"connection.close"}) # {}
  /\ Ops(ticks[5].trace, {"conditional_flush"}) # {}

\* C21: a lifecycle hook that raises on one instance is isolated: at_init
\* still reaches every cached instance and the start completes with
\* at_server_start; a stop that has left its instance hooks behind has
\* written the restart-mode marker, run at_server_stop and, when it is not
\* waiting for the Portal or the thread pool, saved the runtime
C21_HookFailureIsolated ==
  /\ \A k \in 1..Len(inits) :
        /\ {x \in Instances : x \in objects_db \cup accounts_db
                                     \cup {ScriptIds[i] : i \in 1..Len(ScriptIds)}}
             \subseteq Called([trace |-> inits[k].trace], 0, "at_init")
        /\ Ops(inits[k].trace, {"at_server_start"}) # {}
  /\ \A n \in 1..Len(frames) :
        frames[n].pc \notin {"noop", "sync", "drain"}
          => /\ frames[n].pc = "done"
             /\ \E i \in 1..Len(frames[n].trace) : IsModeWrite(frames[n].trace[i])
             /\ Ops(frames[n].trace, {"at_server_stop"}) # {}
             /\ \E i \in 1..Len(frames[n].trace) : IsRuntimeWrite(frames[n].trace[i])

\* the reload and reset stops that were called with no channel to the Portal
NoPortalStops ==
  {n \in FrameIds : /\ ~frames[n].portal
                    /\ frames[n].mode \in {"reload", "reset"}
                    /\ frames[n].pc # "noop"}

StepsRun(tr) ==
  LET st == SelectSeq(tr, LAMBDA e : e.op = "step")
  IN [i \in 1..Len(st) |-> st[i].who]
\* the steps of the setup from step `first` on, as far as len steps ("" past
\* the last step)
StepsFrom(first, len) ==
  [i \in 1..len |->
     IF StepIndex(first) + i - 1 <= Len(SetupSteps)
     THEN SetupSteps[StepIndex(first) + i - 1] ELSE ""]
IsStep(m) == m \in {SetupSteps[i] : i \in 1..Len(SetupSteps)}

\* C23: run_initial_setup runs the setup from its first step when the
\* marker is unset, from the recorded step when the marker is a step, and
\* runs nothing when the marker is "done" or -1; a setup that raises ends
\* with the request to shut the Portal down and no other does; a setup that
\* completes leaves "done"; and each start finds the marker the start
\* before it left, so a start after a kill resumes from the recorded step
C23_SetupResumes ==
  /\ \A k \in 1..Len(setups) :
       LET r == setups[k]
           ran == StepsRun(r.trace)
       IN /\ r.marker = ""
               => ran # <<>> /\ ran = StepsFrom(SetupSteps[1], Len(ran))
          /\ IsStep(r.marker)
               => ran # <<>> /\ ran = StepsFrom(r.marker, Len(ran))
          /\ r.marker \in {"done", "-1"}
               => r.trace = <<>> /\ r.after = r.marker
          /\ r.outcome = "raised"
               <=> Ops(r.trace, {"portal_shutdown"}) = {Len(r.trace)}
          /\ r.outcome = "raised" \/ Ops(r.trace, {"portal_shutdown"}) = {}
          /\ r.outcome \in {"raised", "killed"}
               => r.after = ran[Len(ran)]
          /\ (r.outcome = "ok" /\ ran # <<>>)
               => r.after = "done" /\ ran[Len(ran)] = SetupSteps[Len(SetupSteps)]
          /\ k > 1 => r.marker = setups[k - 1].after
  /\ setups # <<>> => last_initial_setup_step = setups[Len(setups)].after

\* a first start killed in its second step, and the next start resuming
\* from that step and finishing the setup
C23_Witness ==
  /\ Len(setups) = 2
  /\ setups[1].marker = ""
  /\ setups[1].outcome = "killed"
  /\ setups[1].after = SetupSteps[2]
  /\ StepsRun(setups[2].trace) = StepsFrom(SetupSteps[2], 2)
  /\ setups[2].outcome = "ok"
  /\ last_initial_setup_step = "done"

\* the modules a hook was called on during a handler, in the order of the calls
HookCalls(tr, hook) ==
  LET ev == SelectSeq(tr, LAMBDA e : e.op = hook)
  IN [i \in 1..Len(ev) |-> ev[i].who]
\* the registered modules that define a hook, in registration order
DefinedBy(hook) ==
  LET mods == SelectSeq(registry, LAMBDA m : hook \in m.hooks)
  IN [i \in 1..Len(mods) |-> mods[i].name]
\* the server hooks a start in a mode dispatches
StartHooks(mode) ==
  {"at_server_init", "at_server_start"}
    \cup (IF mode = "reload" THEN {"at_server_reload_start"}
          ELSE IF mode \in {"reset", "shutdown"} THEN {"at_server_cold_start"}
          ELSE {})
\* the server hooks a stop in a mode has dispatched when it is at pc
StopHooks(mode, pc) ==
  IF pc \in {"noop", "sync"} THEN {}
  ELSE {"at_server_stop"}
         \cup (IF mode = "reload" THEN {"at_server_reload_stop"}
               ELSE {"at_server_cold_stop"})

\* C24: every server hook a start or a stop dispatches is called on exactly
\* the registered modules that define it, once each, in registration order,
\* the modules without it left out; a hook the handler does not dispatch is
\* called on no module
C24_DispatchInRegistrationOrder ==
  /\ \A k \in 1..Len(inits) : \A h \in ServerHooks :
       HookCalls(inits[k].trace, h)
         = IF h \in StartHooks(inits[k].mode) THEN DefinedBy(h) ELSE <<>>
  /\ \A n \in FrameIds : \A h \in ServerHooks :
       HookCalls(frames[n].trace, h)
         = IF h \in StopHooks(frames[n].mode, frames[n].pc)
           THEN DefinedBy(h) ELSE <<>>

\* the module in the middle lacks the hooks its two neighbours define, and
\* a start and a finished stop have called them on the first and the third
C24_Witness ==
  /\ registry[2].hooks = {}
  /\ "at_server_start" \in registry[1].hooks \cap registry[3].hooks
  /\ inits # <<>>
  /\ HookCalls(inits[1].trace, "at_server_start") = <<"m1", "m3">>
  /\ \E n \in FrameIds :
       /\ frames[n].pc = "done"
       /\ HookCalls(frames[n].trace, "at_server_stop") = <<"m1", "m3">>

\* the stop sequences of this process that have written the restart-mode marker
MarkerWriters ==
  {n \in FrameIds : \E i \in 1..Len(frames[n].trace) : IsModeWrite(frames[n].trace[i])}

\* C25: at_post_portal_sync restores the monitor and the ticker state as
\* persistent exactly when its mode is reload and ends by deleting the
\* restart-mode marker, which is unset when it returns whatever the mode;
\* after the post-sync and before any stop sequence the marker is unset;
\* and a marker that is set was written by a stop sequence of this process
\* or is the one the process before it left, not yet deleted by a post-sync
C25_MarkerLifetime ==
  /\ \A k \in 1..Len(post_syncs) :
       LET p == post_syncs[k]
       IN /\ p.after = <<>>
          /\ Ops(p.trace, {"conf.delete"}) = {Len(p.trace)}
          /\ p.trace[Len(p.trace)].who = "server_restart_mode"
          /\ Cardinality(Ops(p.trace, {"MONITOR_HANDLER.restore"})) = 1
          /\ Cardinality(Ops(p.trace, {"TICKER_HANDLER.restore"})) = 1
          /\ \A i \in Ops(p.trace, {"MONITOR_HANDLER.restore", "TICKER_HANDLER.restore"}) :
               p.trace[i].who = "True" <=> p.mode = "reload"
  /\ (post_syncs # <<>> /\ frames = <<>>) => conf["server_restart_mode"] = <<>>
  /\ conf["server_restart_mode"] # <<>>
       => \/ MarkerWriters # {}
          \/ restarts > 0 /\ post_syncs = <<>>

\* a process started after a reload stop found the marker "reload" and its
\* post-sync in reload mode has deleted it; no stop has been asked for since
C25_Witness ==
  /\ restarts > 0
  /\ post_syncs # <<>>
  /\ post_syncs[1].mode = "reload"
  /\ post_syncs[1].before = <<"reload">>
  /\ Ops(post_syncs[1].trace, {"MONITOR_HANDLER.restore"}) # {}
  /\ frames = <<>>
  /\ conf["server_restart_mode"] = <<>>
====
